---- MODULE Spec2Model ----
(***************************************************************************)
(* A model of clify (src/clify/main.py): the function binder               *)
(* CommandLineFunction, the object/mapping binder CommandLineObject and    *)
(* the leftover-token lexer _parse_extra_kwargs.                           *)
(*                                                                         *)
(* Python strings are sequences of one-character strings, so that          *)
(* startswith, index and slicing are computed as Python computes them.     *)
(* Python values are records [t |-> type tag, v |-> payload].              *)
(***************************************************************************)
EXTENDS Integers, Sequences, FiniteSets, TLC

VARIABLES
    kind,            \* "function" (CommandLineFunction) or "object" (CommandLineObject)
    collect_kwargs,  \* self.collect_kwargs
    strict,          \* self.strict
    has_name,        \* whether the wrapped target has a __name__ attribute
    defaults,        \* self.defaults: <<name, default, is_kw_only>> per parameter
    obj,             \* the wrapped object's attributes (object binder)
    parser,          \* self.parser: registered dest -> coercion type
    cl_args,         \* the command line fixed at construction, as argparse
                     \* partitions it: [supplied: dest -> raw token, extra: leftover tokens]
    in_pargs,        \* *pargs of the last call
    in_kwargs,       \* **kwargs of the last call, as passed
    cl_kwargs,       \* local cl_kwargs of the last call
    extra_kwargs,    \* local extra_kwargs of the last call, at the overlap check
    outcome,         \* how the last call ended
    call_pargs,      \* positionals the wrapped function was invoked with
    call_kwargs,     \* keywords the wrapped function was invoked with / mapping returned
    lex_in,          \* argument of a direct _parse_extra_kwargs application
    lex_out,         \* its result
    co_default,      \* default value of an option under coercion
    co_token,        \* raw command-line token supplied for that option
    co_out           \* the value argparse stores for it

vars == <<kind, collect_kwargs, strict, has_name, defaults, obj, parser, cl_args,
          in_pargs, in_kwargs, cl_kwargs, extra_kwargs, outcome, call_pargs,
          call_kwargs, lex_in, lex_out, co_default, co_token, co_out>>

binder_vars == <<kind, collect_kwargs, strict, has_name, defaults, obj, parser, cl_args,
                 in_pargs, in_kwargs, cl_kwargs, extra_kwargs, outcome, call_pargs,
                 call_kwargs>>

lex_vars == <<lex_in, lex_out>>

co_vars == <<co_default, co_token, co_out>>

----------------------------------------------------------------------------
(* Bounds *)

MaxTokens == 3      \* longest leftover stream given to the lexer directly

MaxExtraCl == 3     \* longest leftover stream of a binder's command line

MaxPargs == 1       \* most programmatic positionals of a call

----------------------------------------------------------------------------
(* Python values *)

NOT_PROVIDED == [t |-> "NOT_PROVIDED", v |-> 0]

EMPTY == [t |-> "EMPTY", v |-> 0]

NoneV == [t |-> "None", v |-> 0]

StrV(s) == [t |-> "str", v |-> s]

IntV(n) == [t |-> "int", v |-> n]

BoolV(b) == [t |-> "bool", v |-> b]

MethodV(n) == [t |-> "method", v |-> n]

ListV(n) == [t |-> "list", v |-> n]

EmptyDict == [k \in {} |-> k]

\* d[k] = v
DictSet(d, k, v) == [x \in DOMAIN d \cup {k} |-> IF x = k THEN v ELSE d[x]]

\* the merge with the overwrite direction reversed: d's entries survive
update_keep_old(d, e) ==
    [x \in DOMAIN d \cup DOMAIN e |-> IF x \in DOMAIN d THEN d[x] ELSE e[x]]

\* d.update(e)
update(d, e) == [x \in DOMAIN d \cup DOMAIN e |-> IF x \in DOMAIN e THEN e[x] ELSE d[x]]

----------------------------------------------------------------------------
(* String primitives *)

\* s.startswith('-'): one dash taken for the option prefix
startswith_dash(s) == Len(s) >= 1 /\ s[1] = "-"

\* s.startswith('--')
startswith_dashes(s) == Len(s) >= 2 /\ s[1] = "-" /\ s[2] = "-"

\* '=' in s
has_eq(s) == \E i \in 1..Len(s) : s[i] = "="

\* s.rindex('='), 1-based: the last '=' instead of the first
rindex_eq(s) == CHOOSE i \in 1..Len(s) : s[i] = "=" /\ \A j \in (i + 1)..Len(s) : s[j] # "="

\* s.index('='), 1-based: the first '='
index_eq(s) == CHOOSE i \in 1..Len(s) : s[i] = "=" /\ \A j \in 1..(i - 1) : s[j] # "="

\* s[lo:hi] with 0-based lo and exclusive hi
slice(s, lo, hi) == SubSeq(s, lo + 1, hi)

----------------------------------------------------------------------------
(* _parse_extra_kwargs: the loop over extra_cl.  _key is <<>> for None and *)
(* <<k>> for a pending key k.                                              *)

RECURSIVE lex_loop(_, _, _, _)
lex_loop(extra_cl, i, kw, _key) ==
    IF i > Len(extra_cl)
    THEN IF _key # <<>>
         THEN [err |-> "RuntimeError", kw |-> EmptyDict]
         ELSE [err |-> "none", kw |-> kw]
    ELSE LET s == extra_cl[i] IN
         IF _key = <<>>
         THEN IF startswith_dashes(s)
              THEN IF has_eq(s)
                   THEN LET idx == index_eq(s) - 1
                            k == slice(s, 2, idx)
                            _value == slice(s, idx + 1, Len(s))
                        IN lex_loop(extra_cl, i + 1, DictSet(kw, k, StrV(_value)), <<>>)
                   ELSE lex_loop(extra_cl, i + 1, kw, <<slice(s, 2, Len(s))>>)
              ELSE lex_loop(extra_cl, i + 1, kw, <<>>)
         ELSE IF startswith_dashes(s)
              THEN [err |-> "RuntimeError", kw |-> EmptyDict]
              ELSE lex_loop(extra_cl, i + 1, DictSet(kw, _key[1], StrV(s)), <<>>)

_parse_extra_kwargs(extra_cl) == lex_loop(extra_cl, 1, EmptyDict, <<>>)

----------------------------------------------------------------------------
(* Coercion *)

BoolFalseTokens == {<<"0">>, <<"F","a","l","s","e">>, <<"F">>,
                    <<"f","a","l","s","e">>, <<"f">>}

\* bool(val) alone, without the false tokens
_bool_plain(val) == BoolV(Len(val) > 0)

\* _bool(val): False for the listed tokens, otherwise bool(val)
_bool(val) == IF val \in BoolFalseTokens THEN BoolV(FALSE) ELSE BoolV(Len(val) > 0)

\* default_type of _build_arg_parser: None for EMPTY/None defaults, _bool for
\* bool defaults, otherwise the default's type
default_type(default) ==
    LET ty == IF default = EMPTY \/ default = NoneV THEN "None" ELSE default.t
    IN IF ty = "bool" THEN "_bool" ELSE ty

Digits == <<"0", "1", "2", "3", "4", "5", "6", "7", "8", "9">>

DigitVal(c) == (CHOOSE i \in 1..10 : Digits[i] = c) - 1

IsDigit(c) == \E i \in 1..10 : Digits[i] = c

RECURSIVE DecVal(_)
DecVal(s) == IF s = <<>> THEN 0
             ELSE 10 * DecVal(SubSeq(s, 1, Len(s) - 1)) + DigitVal(s[Len(s)])

\* int(s) accepts an optionally signed run of decimal digits
int_ok(s) ==
    LET body == IF Len(s) > 0 /\ s[1] \in {"-", "+"} THEN Tail(s) ELSE s
    IN Len(body) > 0 /\ \A i \in 1..Len(body) : IsDigit(body[i])

int(s) == IF s[1] = "-" THEN IntV(0 - DecVal(Tail(s)))
          ELSE IF s[1] = "+" THEN IntV(DecVal(Tail(s)))
          ELSE IntV(DecVal(s))

\* argparse's type(token) for an option registered with type=ty: the stored
\* value, or a failure (argparse reports it and exits)
coerce(ty, token) ==
    IF ty = "None" THEN [ok |-> TRUE, val |-> StrV(token)]
    ELSE IF ty = "_bool" THEN [ok |-> TRUE, val |-> _bool(token)]
    ELSE IF ty = "str" THEN [ok |-> TRUE, val |-> StrV(token)]
    ELSE IF ty = "int" /\ int_ok(token) THEN [ok |-> TRUE, val |-> int(token)]
    ELSE [ok |-> FALSE, val |-> NOT_PROVIDED]

----------------------------------------------------------------------------
(* Construction *)

\* list_attrs(obj): public, non-method attributes
list_attrs(o) ==
    {attr \in DOMAIN o : ~(Len(attr) >= 1 /\ attr[1] = "_") /\ o[attr].t # "method"}

\* CommandLineFunction._build_arg_parser: one option per entry of defaults,
\* type=default_type, default=NOT_PROVIDED
build_function_parser(dflts) ==
    [pn \in {dflts[i][1] : i \in 1..Len(dflts)} |->
        LET i == CHOOSE j \in 1..Len(dflts) : dflts[j][1] = pn
        IN default_type(dflts[i][2])]

\* CommandLineObject._build_arg_parser: one option per listed attribute
build_object_parser(o) == [attr \in list_attrs(o) |-> default_type(o[attr])]

\* parser.parse_known_args: every registered dest holds type(token) when the
\* command line supplied it and the registered default NOT_PROVIDED otherwise;
\* the unrecognized tokens are returned in order
parse_known_args(prs, cl) ==
    LET bad == {d \in DOMAIN cl.supplied : ~coerce(prs[d], cl.supplied[d]).ok}
    IN [err |-> bad # {},
        ns |-> [d \in DOMAIN prs |->
                   IF d \in DOMAIN cl.supplied
                   THEN coerce(prs[d], cl.supplied[d]).val
                   ELSE NOT_PROVIDED],
        extra_cl |-> cl.extra]

----------------------------------------------------------------------------
(* Binding *)

Failed(how) ==
    [outcome |-> how, cl_kwargs |-> EmptyDict, extra_kwargs |-> EmptyDict,
     call_pargs |-> <<>>, call_kwargs |-> EmptyDict]

\* the namespace taken whole, unfiltered
keep_all(cl_arg_vals) == cl_arg_vals

\* {pn: value for pn, value in cl_arg_vals.__dict__.items() if value is not NOT_PROVIDED}
filter_provided(cl_arg_vals) ==
    [pn \in {d \in DOMAIN cl_arg_vals : cl_arg_vals[d] # NOT_PROVIDED} |-> cl_arg_vals[pn]]

\* the exception of the overlap branch: the message formats <target>.__name__
overlap_error == IF has_name THEN "TypeError" ELSE "AttributeError"

\* the strict test made after the uncollected extras were dropped
strict_after_drop(kw) == strict /\ (IF ~collect_kwargs THEN EmptyDict ELSE kw) # EmptyDict

\* self.strict and extra_kwargs
strict_violation(kw) == strict /\ kw # EmptyDict

\* CommandLineFunction.call_after_parse
call_after_parse(cl_arg_vals, pargs, extra_cl, kwargs) ==
    LET lexed == _parse_extra_kwargs(extra_cl) IN
    IF lexed.err # "none" THEN Failed(lexed.err)
    ELSE IF strict_violation(lexed.kw) THEN Failed("ValueError")
    ELSE LET extra == IF ~collect_kwargs THEN EmptyDict ELSE lexed.kw
             clk == filter_provided(cl_arg_vals)
             overlap == (DOMAIN kwargs \cap DOMAIN clk) \cap DOMAIN extra
         IN IF overlap # {}
            THEN [outcome |-> overlap_error, cl_kwargs |-> clk, extra_kwargs |-> extra,
                  call_pargs |-> <<>>, call_kwargs |-> EmptyDict]
            ELSE [outcome |-> "called", cl_kwargs |-> clk, extra_kwargs |-> extra,
                  call_pargs |-> pargs,
                  call_kwargs |-> update(update(kwargs, clk), extra)]

\* CommandLineObject.parse, after parse_known_args
parse(cl_arg_vals, extra_cl, kwargs) ==
    LET lexed == _parse_extra_kwargs(extra_cl) IN
    IF lexed.err # "none" THEN Failed(lexed.err)
    ELSE IF strict_violation(lexed.kw) THEN Failed("ValueError")
    ELSE LET extra == IF ~collect_kwargs THEN EmptyDict ELSE lexed.kw
             clk == filter_provided(cl_arg_vals)
             overlap == (DOMAIN kwargs \cap DOMAIN clk) \cap DOMAIN extra
         IN IF overlap # {}
            THEN [outcome |-> overlap_error, cl_kwargs |-> clk, extra_kwargs |-> extra,
                  call_pargs |-> <<>>, call_kwargs |-> EmptyDict]
            ELSE [outcome |-> "returned", cl_kwargs |-> clk, extra_kwargs |-> extra,
                  call_pargs |-> <<>>,
                  call_kwargs |-> update(update(kwargs, clk), extra)]

\* the merged keywords written to the object as attributes
obj_setattr(o, merged) == update(o, merged)

\* the wrapped object after parse: parse reads self.obj and assigns nothing to it
obj_after_parse(o, merged) == o

----------------------------------------------------------------------------
(* The wrapped targets and the inputs *)

\* def f(a, x=20, *p, m=True, n=None, **kwargs)
F_DEFAULTS == << << <<"a">>, EMPTY, FALSE >>,
                 << <<"x">>, IntV(20), FALSE >>,
                 << <<"m">>, BoolV(TRUE), TRUE >>,
                 << <<"n">>, NoneV, TRUE >> >>

\* an object with public attributes x, m, n, y, a hidden attribute _h and a method s
A_ATTRS == (<<"x">> :> IntV(20)) @@ (<<"m">> :> BoolV(TRUE)) @@ (<<"n">> :> NoneV)
           @@ (<<"y">> :> StrV(<<"t">>)) @@ (<<"_", "h">> :> IntV(1))
           @@ (<<"s">> :> MethodV(1))

\* the sequences over T of length at most n
Streams(T, n) == UNION {[1..m -> T] : m \in 0..n}

\* the partial mappings from keys of K to values of V
Dicts(K, V) == UNION {[D -> V] : D \in SUBSET K}

\* recognized options a command line supplies, with their raw tokens
Supplieds ==
    { EmptyDict,
      <<"x">> :> <<"2", "0">>,
      (<<"x">> :> <<"2">>) @@ (<<"m">> :> <<"0">>),
      <<"n">> :> <<"0">>,
      <<"x">> :> <<"q">> }

BindTokens == { <<"-", "-">>, <<"v">>, <<"-", "-", "x", "=", "2">>, <<"-", "-", "k">> }

\* the option name a two-dash token spells
option_name(s) == IF has_eq(s) THEN slice(s, 2, index_eq(s) - 1) ELSE slice(s, 2, Len(s))

\* parse_known_args leaves a token that spells a registered option among the
\* leftovers only after a '--' separator
Producible(prs, e) ==
    \A i \in 1..Len(e) :
        (startswith_dashes(e[i]) /\ option_name(e[i]) \in DOMAIN prs)
            => \E j \in 1..(i - 1) : e[j] = <<"-", "-">>

Leftovers(prs) == {e \in Streams(BindTokens, MaxExtraCl) : Producible(prs, e)}

ProgKeys == { <<"x">>, <<"k">> }

Kwargs == Dicts(ProgKeys, {ListV(1)})

Pargs == Streams({ListV(2)}, MaxPargs)

LexTokens == { <<"-", "-", "a">>, <<"-", "-", "b">>, <<"-", "-">>,
               <<"-", "-", "a", "=", "1">>, <<"-", "-", "a", "=", "x", "=", "y">>,
               <<"-", "-", "=", "v">>, <<"v">>, <<"a", "=", "b">>, <<"-", "a">> }

CoDefaults == { EMPTY, NoneV, BoolV(TRUE), BoolV(FALSE), IntV(20), StrV(<<"1">>) }

CoTokens == BoolFalseTokens \cup
            { <<"1">>, <<"T","r","u","e">>, <<"F","A","L","S","E">>, <<"n","o">>,
              <<"0","0">>, <<"-","7">>, <<>> }

ExitedV == [t |-> "SystemExit", v |-> 0]

----------------------------------------------------------------------------
(* Initial states *)

NoCall ==
    /\ in_pargs = <<>>
    /\ in_kwargs = EmptyDict
    /\ cl_kwargs = EmptyDict
    /\ extra_kwargs = EmptyDict
    /\ outcome = "none"
    /\ call_pargs = <<>>
    /\ call_kwargs = EmptyDict

LexIdle == lex_in = <<>> /\ lex_out = [err |-> "unset", kw |-> EmptyDict]

CoIdle == co_default = NoneV /\ co_token = <<>> /\ co_out = NOT_PROVIDED

\* a binder as its constructor leaves it
Constructed ==
    /\ kind \in {"function", "object"}
    /\ collect_kwargs \in BOOLEAN
    /\ strict \in BOOLEAN
    /\ ~(collect_kwargs /\ strict)
    /\ has_name \in (IF kind = "function" THEN {TRUE} ELSE BOOLEAN)
    /\ defaults = (IF kind = "function" THEN F_DEFAULTS ELSE <<>>)
    /\ obj = (IF kind = "object" THEN A_ATTRS ELSE EmptyDict)
    /\ parser = (IF kind = "function" THEN build_function_parser(defaults)
                 ELSE build_object_parser(obj))
    /\ NoCall

Init ==
    /\ Constructed
    /\ cl_args \in {[supplied |-> su, extra |-> e] : su \in Supplieds, e \in Leftovers(parser)}
    /\ LexIdle
    /\ CoIdle

BinderIdle ==
    /\ Constructed
    /\ kind = "function"
    /\ ~collect_kwargs
    /\ ~strict
    /\ cl_args = [supplied |-> EmptyDict, extra |-> <<>>]

InitLex ==
    /\ BinderIdle
    /\ lex_in \in Streams(LexTokens, MaxTokens)
    /\ lex_out = [err |-> "unset", kw |-> EmptyDict]
    /\ CoIdle

InitCoerce ==
    /\ BinderIdle
    /\ LexIdle
    /\ co_default \in CoDefaults
    /\ co_token \in CoTokens
    /\ co_out = NOT_PROVIDED

----------------------------------------------------------------------------
(* Actions *)

Record(pargs, kwargs, r) ==
    /\ in_pargs' = pargs
    /\ in_kwargs' = kwargs
    /\ cl_kwargs' = r.cl_kwargs
    /\ extra_kwargs' = r.extra_kwargs
    /\ outcome' = r.outcome
    /\ call_pargs' = r.call_pargs
    /\ call_kwargs' = r.call_kwargs

\* CommandLineFunction.__call__(*pargs, **kwargs)
Call(pargs, kwargs) ==
    /\ kind = "function"
    /\ LET parsed == parse_known_args(parser, cl_args)
           r == IF parsed.err THEN Failed("SystemExit")
                ELSE call_after_parse(parsed.ns, pargs, parsed.extra_cl, kwargs)
       IN Record(pargs, kwargs, r)
    /\ UNCHANGED <<kind, collect_kwargs, strict, has_name, defaults, obj, parser, cl_args>>
    /\ UNCHANGED <<lex_vars, co_vars>>

\* CommandLineObject.parse(**kwargs)
Parse(kwargs) ==
    /\ kind = "object"
    /\ LET parsed == parse_known_args(parser, cl_args)
           r == IF parsed.err THEN Failed("SystemExit")
                ELSE parse(parsed.ns, parsed.extra_cl, kwargs)
       IN /\ Record(<<>>, kwargs, r)
          /\ obj' = obj_after_parse(obj, r.call_kwargs)
    /\ UNCHANGED <<kind, collect_kwargs, strict, has_name, defaults, parser, cl_args>>
    /\ UNCHANGED <<lex_vars, co_vars>>

\* _parse_extra_kwargs(lex_in)
LexStep ==
    /\ lex_out.err = "unset"
    /\ lex_out' = _parse_extra_kwargs(lex_in)
    /\ UNCHANGED <<lex_in, binder_vars, co_vars>>

\* argparse stores type(token) for an option registered from co_default
Supply ==
    /\ co_out = NOT_PROVIDED
    /\ LET r == coerce(default_type(co_default), co_token)
       IN co_out' = IF r.ok THEN r.val ELSE ExitedV
    /\ UNCHANGED <<co_default, co_token, binder_vars, lex_vars>>

Next ==
    \/ \E pargs \in Pargs, kwargs \in Kwargs : Call(pargs, kwargs)
    \/ \E kwargs \in Kwargs : Parse(kwargs)

NextLex == LexStep

NextCoerce == Supply

Spec == Init /\ [][Next]_vars

SpecLex == InitLex /\ [][NextLex]_vars

SpecCoerce == InitCoerce /\ [][NextCoerce]_vars

----------------------------------------------------------------------------
(* Properties *)

Dispatched == outcome \in {"called", "returned"}

\* the bind got as far as the overlap check
Merged == outcome \in {"called", "returned", "TypeError", "AttributeError"}

InAllThree == (DOMAIN in_kwargs \cap DOMAIN cl_kwargs) \cap DOMAIN extra_kwargs

\* C1: when the bind succeeds, the merged keywords hold exactly the keys of the
\* three sources, each with the value of its highest-precedence source
\* (extra > CLI > programmatic).
C1_MergePrecedence ==
    Dispatched =>
        /\ DOMAIN call_kwargs =
               (DOMAIN in_kwargs \cup DOMAIN cl_kwargs) \cup DOMAIN extra_kwargs
        /\ \A k \in DOMAIN call_kwargs :
               call_kwargs[k] = IF k \in DOMAIN extra_kwargs THEN extra_kwargs[k]
                                ELSE IF k \in DOMAIN cl_kwargs THEN cl_kwargs[k]
                                ELSE in_kwargs[k]

C1_Witness ==
    /\ Dispatched
    /\ \E k \in DOMAIN cl_kwargs \cap DOMAIN extra_kwargs : cl_kwargs[k] # extra_kwargs[k]
    /\ \E k \in DOMAIN in_kwargs : k \notin DOMAIN cl_kwargs \cup DOMAIN extra_kwargs

\* C2: in both binders, a key present in the programmatic, the CLI and the extra
\* keywords makes the bind fail with the conflict error (TypeError), and without
\* such a key no conflict error is raised.
C2_ConflictError ==
    Merged => (InAllThree # {} <=> outcome = "TypeError")

\* C4: in strict mode a bind whose leftover tokens lex to a non-empty mapping
\* fails with the strict-mode error (ValueError) and dispatches nothing; a bind
\* whose extra mapping is empty does not raise it.
C4_StrictRejectsExtras ==
    (outcome \notin {"none", "SystemExit"}) =>
        LET lexed == _parse_extra_kwargs(cl_args.extra) IN
        /\ (strict /\ lexed.err = "none" /\ lexed.kw # EmptyDict) =>
               /\ outcome = "ValueError"
               /\ call_pargs = <<>>
               /\ call_kwargs = EmptyDict
        /\ (lexed.err = "none" /\ lexed.kw = EmptyDict) => outcome # "ValueError"

C4_Witness ==
    /\ strict
    /\ outcome = "ValueError"
    /\ in_kwargs # EmptyDict
    /\ _parse_extra_kwargs(cl_args.extra).kw # EmptyDict

\* C5: with neither collect_kwargs nor strict, the leftover tokens are dropped:
\* the bind ends exactly as it does with no leftover token.
C5_ExtrasDropped ==
    (outcome \notin {"none", "SystemExit"} /\ ~collect_kwargs /\ ~strict) =>
        LET ns == parse_known_args(parser, cl_args).ns
            r == IF kind = "function" THEN call_after_parse(ns, in_pargs, <<>>, in_kwargs)
                 ELSE parse(ns, <<>>, in_kwargs)
        IN /\ outcome = r.outcome
           /\ call_pargs = r.call_pargs
           /\ call_kwargs = r.call_kwargs

C_TwoDash(s) == Len(s) >= 2 /\ SubSeq(s, 1, 2) = <<"-", "-">>

C_Bare(s) == C_TwoDash(s) /\ \A i \in 1..Len(s) : s[i] # "="

\* the positional tokens of a leftover stream: not option-shaped and not the
\* value of the bare option before them
C_Free(e, i) == ~C_TwoDash(e[i]) /\ (i = 1 \/ ~C_Bare(e[i - 1]))

RECURSIVE C_FreeTokens(_, _)
C_FreeTokens(e, i) ==
    IF i > Len(e) THEN <<>>
    ELSE (IF C_Free(e, i) THEN <<StrV(e[i])>> ELSE <<>>) \o C_FreeTokens(e, i + 1)

\* C6: the wrapped function is invoked with the programmatic positionals
\* followed by the free command-line tokens, in order.
C6_PositionalsAppended ==
    (kind = "function" /\ outcome = "called") =>
        call_pargs = in_pargs \o C_FreeTokens(cl_args.extra, 1)

\* C8: parse leaves every attribute of the wrapped object as it was at
\* construction, adding and removing none.
C8_ObjectUntouched == (kind = "object") => obj = A_ATTRS

C8_Witness ==
    /\ kind = "object"
    /\ outcome = "returned"
    /\ \E k \in DOMAIN call_kwargs : k \notin DOMAIN obj
    /\ \E k \in DOMAIN call_kwargs \cap DOMAIN obj : call_kwargs[k] # obj[k]

\* C9: no dispatched positional or keyword value is NOT_PROVIDED or EMPTY, and a
\* registered option is a CLI keyword exactly when the command line supplied it.
C9_NoSentinelDispatched ==
    /\ Dispatched =>
           /\ \A i \in 1..Len(call_pargs) : call_pargs[i] \notin {NOT_PROVIDED, EMPTY}
           /\ \A k \in DOMAIN call_kwargs : call_kwargs[k] \notin {NOT_PROVIDED, EMPTY}
    /\ Merged =>
           \A d \in DOMAIN parser : d \in DOMAIN cl_kwargs <=> d \in DOMAIN cl_args.supplied

C9_Witness ==
    /\ Dispatched
    /\ <<"x">> \in DOMAIN cl_kwargs
    /\ cl_kwargs[<<"x">>] = IntV(20)
    /\ call_kwargs[<<"x">>] = IntV(20)
    /\ <<"m">> \notin DOMAIN call_kwargs

\* a bare option token that ends the stream or stands right before a two-dash token
C_Malformed(e) ==
    \E i \in 1..Len(e) : C_Bare(e[i]) /\ (i = Len(e) \/ C_TwoDash(e[i + 1]))

\* C3: _parse_extra_kwargs fails exactly on the streams in which a bare option
\* token is last or is immediately followed by a token starting with '--'.
C3_LexerFailsIffMalformed ==
    (lex_out.err # "unset") => (lex_out.err = "RuntimeError" <=> C_Malformed(lex_in))

C3_Witness ==
    /\ lex_out.err = "RuntimeError"
    /\ Len(lex_in) = 3
    /\ C_Bare(lex_in[2])
    /\ C_TwoDash(lex_in[3]) /\ ~C_Bare(lex_in[3])
    /\ ~C_TwoDash(lex_in[1])

C_FirstEq(s) == CHOOSE i \in 1..Len(s) : s[i] = "=" /\ \A j \in 1..(i - 1) : s[j] # "="

C_Name(s) == IF C_Bare(s) THEN SubSeq(s, 3, Len(s)) ELSE SubSeq(s, 3, C_FirstEq(s) - 1)

C_Value(e, i) == IF C_Bare(e[i]) THEN e[i + 1]
                 ELSE SubSeq(e[i], C_FirstEq(e[i]) + 1, Len(e[i]))

C_Options(e) == {i \in 1..Len(e) : C_TwoDash(e[i])}

C_Last(e, n) == CHOOSE i \in C_Options(e) :
                    /\ C_Name(e[i]) = n
                    /\ \A j \in C_Options(e) : C_Name(e[j]) = n => j <= i

\* C10: for an accepted stream the mapping has one entry per distinct option
\* name, holding the value of the name's last occurrence: the text after the
\* first '=' of --key=value, or the token after --key.
C10_LexerMapping ==
    (lex_out.err = "none") =>
        /\ DOMAIN lex_out.kw = {C_Name(lex_in[i]) : i \in C_Options(lex_in)}
        /\ \A n \in DOMAIN lex_out.kw :
               lex_out.kw[n] = StrV(C_Value(lex_in, C_Last(lex_in, n)))

C10_Witness ==
    /\ lex_out.err = "none"
    /\ Len(lex_in) = 3
    /\ lex_in[1] = <<"-", "-", "a", "=", "x", "=", "y">>
    /\ C_Bare(lex_in[2])
    /\ C_Name(lex_in[2]) = <<"a">>
    /\ lex_out.kw[<<"a">>] = StrV(lex_in[3])

C7_FalseTokens == {<<"0">>, <<"F">>, <<"f">>, <<"F","a","l","s","e">>, <<"f","a","l","s","e">>}

\* C7: an option with a boolean default stores false for a token of
\* {"0","F","f","False","false"} and true for every other non-empty token; an
\* option whose default is None or absent stores the raw string.
C7_BooleanCoercion ==
    (co_out # NOT_PROVIDED) =>
        /\ (co_default.t = "bool" /\ co_token \in C7_FalseTokens) => co_out = BoolV(FALSE)
        /\ (co_default.t = "bool" /\ co_token \notin C7_FalseTokens /\ co_token # <<>>)
               => co_out = BoolV(TRUE)
        /\ (co_default \in {NoneV, EMPTY}) => co_out = StrV(co_token)

C7_Witness ==
    /\ co_default = BoolV(TRUE)
    /\ co_token = <<"f">>
    /\ co_out = BoolV(FALSE)

====
